---- MODULE Spec2Model ----
(***************************************************************************)
(* A model of Defense/bergeon/src/framework/secondary.py: the Secondary    *)
(* ("conscience") model wrapper.  A Python str is a sequence of one-       *)
(* character strings, so that lower(), `in` and format() are computed      *)
(* character by character.  The external provider (model_info_from_name,   *)
(* pretrained_from_info) and the inherited generate_using are opaque       *)
(* calls: each either returns a value or raises, chosen by the environment.*)
(***************************************************************************)
EXTENDS Naturals, Sequences, FiniteSets

VARIABLES
    pc,                 \* "idle", or the line of the construction about to run
    held,               \* TRUE when the caller holds a Secondary instance
    critique_model,     \* self.critique_model
    critique_tokenizer, \* self.critique_tokenizer
    rephrase_model,     \* self.rephrase_model
    rephrase_tokenizer, \* self.rephrase_tokenizer
    loaded,             \* history: what pretrained_from_info returned for this object
    op,                 \* the operation called last (or running)
    args,               \* its string arguments and keyword options
    ctor,               \* the locals of from_model_names / __init__
    calls,              \* the calls the operation made, in order
    outcome,            \* "none", "running", "returned" or "raised"
    error,              \* the exception that reached the caller ("" if none)
    resStr,             \* the returned str
    resBool             \* the returned bool

vars == <<pc, held, critique_model, critique_tokenizer, rephrase_model,
          rephrase_tokenizer, loaded, op, args, ctor, calls, outcome, error,
          resStr, resBool>>

self_fields == <<critique_model, critique_tokenizer, rephrase_model, rephrase_tokenizer>>

(***************************************************************************)
(* Bounds                                                                  *)
(***************************************************************************)
\* the longest run of padding characters put in front of a critique text
MaxPad == 2

(***************************************************************************)
(* str: characters, lower(), `in`                                          *)
(***************************************************************************)
UpperCase == <<"A","B","C","D","E","F","G","H","I","J","K","L","M",
               "N","O","P","Q","R","S","T","U","V","W","X","Y","Z">>
LowerCase == <<"a","b","c","d","e","f","g","h","i","j","k","l","m",
               "n","o","p","q","r","s","t","u","v","w","x","y","z">>

\* each upper-case letter's lower-case letter, and the other way round
ToLower == [c \in {UpperCase[k] : k \in 1..Len(UpperCase)} |->
               LowerCase[CHOOSE k \in 1..Len(UpperCase) : UpperCase[k] = c]]
ToUpper == [c \in {LowerCase[k] : k \in 1..Len(LowerCase)} |->
               UpperCase[CHOOSE k \in 1..Len(LowerCase) : LowerCase[k] = c]]

CharLower(c) == IF c \in DOMAIN ToLower THEN ToLower[c] ELSE c

CharUpper(c) == IF c \in DOMAIN ToUpper THEN ToUpper[c] ELSE c

\* str.lower()
StrLower(s) == [i \in 1..Len(s) |-> CharLower(s[i])]

\* `sub in s`
StrIn(sub, s) ==
    \E i \in 0..Len(s) : /\ i + Len(sub) <= Len(s)
                         /\ SubSeq(s, i + 1, i + Len(sub)) = sub

(***************************************************************************)
(* Text literals                                                           *)
(***************************************************************************)
\* "no change"
Txt_no_change == <<"n","o"," ","c","h","a","n","g","e">>

\* "not change"
Txt_not_change == <<"n","o","t"," ","c","h","a","n","g","e">>

\* "not adversarial"
Txt_not_adversarial == <<"n","o","t"," ","a","d","v","e","r","s","a","r","i","a","l">>

\* "no change needed"
Txt_no_change_needed == <<"n","o"," ","c","h","a","n","g","e"," ","n","e","e","d","e","d">>

\* "cannot change"
Txt_cannot_change == <<"c","a","n","n","o","t"," ","c","h","a","n","g","e">>

\* "nochange"
Txt_nochange == <<"n","o","c","h","a","n","g","e">>

\* "no  change"
Txt_no__change == <<"n","o"," "," ","c","h","a","n","g","e">>

\* "no chang"
Txt_no_chang == <<"n","o"," ","c","h","a","n","g">>

\* "o change"
Txt_o_change == <<"o"," ","c","h","a","n","g","e">>

\* "not adversaria"
Txt_not_adversaria == <<"n","o","t"," ","a","d","v","e","r","s","a","r","i","a">>

\* "nothing seems wrong"
Txt_nothing_wrong == <<"n","o","t","h","i","n","g"," ","s","e","e","m","s"," ","w","r","o","n","g">>

\* "This contains unsafe content; suggest revision"
Txt_unsafe == <<"T","h","i","s"," ","c","o","n","t","a","i","n","s"," ","u","n","s","a","f","e"," ","c","o","n","t","e","n","t",";"," ","s","u","g","g","e","s","t"," ","r","e","v","i","s","i","o","n">>

\* "x"
Txt_x == <<"x">>

\* "Hi"
Txt_hi == <<"H","i">>

\* "gpt2"
Txt_gpt2 == <<"g","p","t","2">>

\* "t5"
Txt_t5 == <<"t","5">>

\* "dev/echo"
Txt_dev_echo == <<"d","e","v","/","e","c","h","o">>

(***************************************************************************)
(* The inputs the environment draws from                                   *)
(***************************************************************************)
\* s with the characters at the positions in P upper-cased
StrUpperAt(s, P) == [i \in 1..Len(s) |-> IF i \in P THEN CharUpper(s[i]) ELSE s[i]]

\* a few ways of casing a text: as written, all upper, first or last character
\* upper, every other character upper
Casings(s) ==
    { StrUpperAt(s, P) : P \in { {}, 1..Len(s), {1}, {Len(s)},
                                 {i \in 1..Len(s) : i % 2 = 1} } }

RECURSIVE SeqsUpTo(_, _)
\* the sequences over S of length at most n
SeqsUpTo(S, n) ==
    IF n = 0 THEN { <<>> }
    ELSE LET shorter == SeqsUpTo(S, n - 1)
         IN  shorter \cup { Append(t, c) : t \in shorter, c \in S }

PadChars == { "x", " ", "N" }
LeftPads == SeqsUpTo(PadChars, MaxPad)
RightPads == { <<>>, <<"d">>, <<" ">> }

BaseTexts ==
    { <<>>, Txt_no_change, Txt_not_change, Txt_not_adversarial,
      Txt_no_change_needed, Txt_cannot_change, Txt_nochange, Txt_no__change,
      Txt_no_chang, Txt_o_change, Txt_not_adversaria, Txt_nothing_wrong, Txt_unsafe }

\* the texts is_valid_critique is tried on
Texts ==
    { l \o c \o r : l \in LeftPads, r \in RightPads,
                    c \in UNION { Casings(b) : b \in BaseTexts } }

\* the texts a generation returns
Outputs ==
    { <<>>, Txt_unsafe, Txt_no_change_needed, StrUpperAt(Txt_no_change, {1, 4}),
      Txt_cannot_change, StrUpperAt(Txt_not_adversarial, 1..Len(Txt_not_adversarial)),
      Txt_nothing_wrong, Txt_no__change, Txt_hi }

\* the prompts, responses and texts a caller passes
Prompts == { Txt_x, Txt_no_change }

\* the critiques a caller passes to the prompt builders
Critiques == { <<>>, Txt_unsafe, Txt_hi }

\* the keyword options a caller passes (**kwargs), as opaque tokens
Options == { "{}", "{max_new_tokens: 8}" }

\* the exceptions the external provider and the generation raise
Errors == { "OSError", "OutOfMemoryError" }

(***************************************************************************)
(* is_valid_critique                                                       *)
(***************************************************************************)
no_critique_flags == << Txt_no_change, Txt_not_change, Txt_not_adversarial >>

RECURSIVE is_valid_from(_, _)
\* the for loop of is_valid_critique, from the k-th flag on
is_valid_from(critique, k) ==
    IF k > Len(no_critique_flags) THEN TRUE
    ELSE IF StrIn(StrLower(no_critique_flags[k]), StrLower(critique)) THEN FALSE
    ELSE is_valid_from(critique, k + 1)

\* is_valid_critique without the .lower() of the critique
is_valid_critique_case_sensitive(critique) ==
    \A k \in 1..Len(no_critique_flags) : ~StrIn(StrLower(no_critique_flags[k]), critique)

is_valid_critique(critique) == is_valid_from(critique, 1)

(***************************************************************************)
(* str.format and the four templates of src/strings.py                     *)
(***************************************************************************)
\* a template is a sequence of segments: literal text, or a named slot
Lit(t) == [slot |-> "", lit |-> t]
Slot(n) == [slot |-> n, lit |-> <<>>]

RECURSIVE StrFormat(_, _)
\* template.format(**kw): the literal text with each slot replaced by kw[slot]
StrFormat(template, kw) ==
    IF template = <<>> THEN <<>>
    ELSE LET seg == Head(template)
         IN  (IF seg.slot = "" THEN seg.lit ELSE kw[seg.slot])
             \o StrFormat(Tail(template), kw)

PROMPT_CRITIQUE_PROMPT == << Lit(<<"P","?",":">>), Slot("prompt"), Lit(<<".">>) >>

RESPONSE_CRITIQUE_PROMPT == << Lit(<<"R","?",":">>), Slot("response"), Lit(<<".">>) >>

CONSCIENCE_DISCLAIMER_PROMPT ==
    << Lit(<<"!">>), Slot("prompt_critique"), Lit(<<"|">>), Slot("prompt") >>

RESPONSE_CORRECTION_PROMPT ==
    << Lit(<<"~">>), Slot("response"), Lit(<<"|">>), Slot("response_critique") >>

\* make_conscience_prompt filling both slots with the prompt
make_conscience_prompt_one_value(prompt, prompt_critique) ==
    StrFormat(CONSCIENCE_DISCLAIMER_PROMPT,
              [prompt_critique |-> prompt, prompt |-> prompt])

make_conscience_prompt(prompt, prompt_critique) ==
    StrFormat(CONSCIENCE_DISCLAIMER_PROMPT,
              [prompt_critique |-> prompt_critique, prompt |-> prompt])

make_correction_prompt(response, response_critique) ==
    StrFormat(RESPONSE_CORRECTION_PROMPT,
              [response |-> response, response_critique |-> response_critique])


(***************************************************************************)
(* Values                                                                  *)
(***************************************************************************)
\* None, where a model or a tokenizer is expected
NoObj == [kind |-> "None", obj |-> 0, name_or_path |-> <<>>]

\* no ModelInfo
NoInfo == [name |-> <<>>, src |-> "", task |-> ""]

NoArgs == [text |-> <<>>, critique |-> <<>>, kwargs |-> ""]

\* an optional argument: passed, or left out
Given(v) == [given |-> TRUE, val |-> v]
OmittedName == [given |-> FALSE, val |-> <<>>]
OmittedSrc == [given |-> FALSE, val |-> ""]

\* the value of a parameter whose default is d
Default(arg, d) == IF arg.given THEN arg.val ELSE d

NoCtor ==
    [via |-> "", secondary_model_name |-> <<>>,
     rephrase_model_name |-> OmittedName, secondary_model_src |-> OmittedSrc,
     rephrase_model_src |-> OmittedSrc,
     s_model_info |-> NoInfo, rephrase_model_info |-> NoInfo,
     init_critique_model_info |-> NoInfo, init_rephrase_model_info |-> NoInfo]

NoLoaded == [critique |-> <<NoObj, NoObj>>, rephrase |-> <<NoObj, NoObj>>]

\* the model names and the source hints a caller passes
ModelNames == { Txt_gpt2, Txt_t5 }
SrcHints == { "OPENAI_API" }

\* the descriptors a caller passes to the constructor directly
ModelInfos ==
    { [name |-> n, src |-> "AUTO", task |-> t] :
          n \in ModelNames, t \in {"conversational", "summarization"} }

\* one call made by an operation: what was called, with what, and how it ended
Call(fn, info, text, model, tokenizer, kwargs, ret, raised) ==
    [fn |-> fn, info |-> info, text |-> text, model |-> model,
     tokenizer |-> tokenizer, kwargs |-> kwargs, ret |-> ret, raised |-> raised]

(***************************************************************************)
(* The external collaborators: every way each call can end                 *)
(***************************************************************************)
\* universalmodels.model_info_from_name(name, model_src=, model_task=)
model_info_from_name(model_name, model_src, model_task) ==
    { [raised |-> "", info |-> [name |-> model_name, src |-> model_src, task |-> model_task]] }
    \cup { [raised |-> e, info |-> NoInfo] : e \in Errors }

\* universalmodels.pretrained_from_info(info); k tells the objects of one load
\* from those of another
pretrained_from_info(info, k) ==
    { [raised |-> "",
       model |-> [kind |-> "model", obj |-> k, name_or_path |-> info.name],
       tokenizer |-> [kind |-> "tokenizer", obj |-> k, name_or_path |-> info.name]] }
    \cup { [raised |-> e, model |-> NoObj, tokenizer |-> NoObj] : e \in Errors }

\* FrameworkModel.generate_using(text, model, tokenizer, **kwargs)
generate_using(text, model, tokenizer, kwargs) ==
    { [raised |-> "", ret |-> t] : t \in Outputs }
    \cup { [raised |-> e, ret |-> <<>>] : e \in Errors }

(***************************************************************************)
(* Init                                                                    *)
(***************************************************************************)
Init ==
    /\ pc = "idle"
    /\ held = FALSE
    /\ critique_model = NoObj
    /\ critique_tokenizer = NoObj
    /\ rephrase_model = NoObj
    /\ rephrase_tokenizer = NoObj
    /\ loaded = NoLoaded
    /\ op = ""
    /\ args = NoArgs
    /\ ctor = NoCtor
    /\ calls = <<>>
    /\ outcome = "none"
    /\ error = ""
    /\ resStr = <<>>
    /\ resBool = FALSE

(***************************************************************************)
(* Construction                                                            *)
(***************************************************************************)
\* an exception leaves the construction: nothing is returned, and the object
\* under construction, if any, is unreachable
RaiseFromConstruction(e) ==
    /\ pc' = "idle"
    /\ held' = FALSE
    /\ critique_model' = NoObj
    /\ critique_tokenizer' = NoObj
    /\ rephrase_model' = NoObj
    /\ rephrase_tokenizer' = NoObj
    /\ loaded' = NoLoaded
    /\ outcome' = "raised"
    /\ error' = e

\* line 16, given the locals c of the constructor and the calls cs made so far
init_L16(c, cs) ==
    \E r \in pretrained_from_info(c.init_critique_model_info, 1) :
        /\ ctor' = c
        /\ calls' = Append(cs, Call("pretrained_from_info", c.init_critique_model_info,
                                    <<>>, NoObj, NoObj, "", <<>>, r.raised))
        /\ IF r.raised = ""
           THEN /\ critique_model' = r.model
                /\ critique_tokenizer' = r.tokenizer
                /\ loaded' = [loaded EXCEPT !.critique = <<r.model, r.tokenizer>>]
                /\ pc' = "L17"
                /\ outcome' = "running"
                /\ error' = ""
                /\ UNCHANGED <<held, rephrase_model, rephrase_tokenizer>>
           ELSE RaiseFromConstruction(r.raised)

\* lines 20-21 and 32: what from_model_names asks the resolver for first; an
\* omitted source is ModelSrc.AUTO
from_model_names_L32_request(secondary_model_name, secondary_model_src) ==
    [name |-> secondary_model_name, src |-> Default(secondary_model_src, "AUTO"),
     task |-> "conversational"]

\* from_model_names is called; line 32 runs
from_model_names(secondary_model_name, rephrase_model_name, secondary_model_src, rephrase_model_src) ==
    /\ pc = "idle"
    /\ ~held
    /\ op' = "from_model_names"
    /\ args' = NoArgs
    /\ resStr' = <<>>
    /\ resBool' = FALSE
    /\ LET q == from_model_names_L32_request(secondary_model_name, secondary_model_src)
       IN  \E r \in model_info_from_name(q.name, q.src, q.task) :
             /\ calls' = << Call("model_info_from_name", q, <<>>, NoObj, NoObj, "",
                                 <<>>, r.raised) >>
             /\ ctor' = [NoCtor EXCEPT
                           !.via = "from_model_names",
                           !.secondary_model_name = secondary_model_name,
                           !.rephrase_model_name = rephrase_model_name,
                           !.secondary_model_src = secondary_model_src,
                           !.rephrase_model_src = rephrase_model_src,
                           !.s_model_info = r.info]
             /\ IF r.raised = ""
                THEN /\ pc' = "L34"
                     /\ outcome' = "running"
                     /\ error' = ""
                     /\ UNCHANGED <<held, self_fields, loaded>>
                ELSE RaiseFromConstruction(r.raised)

\* line 34 with the critique model's name as the default rephrase name
from_model_names_L34_request_other_default ==
    [name |-> Default(ctor.rephrase_model_name, ctor.secondary_model_name),
     src |-> Default(ctor.rephrase_model_src, "AUTO"),
     task |-> "summarization"]

\* lines 20-21 and 34: what from_model_names asks the resolver for next; an
\* omitted rephrase name is "dev/echo", an omitted source ModelSrc.AUTO
from_model_names_L34_request ==
    [name |-> Default(ctor.rephrase_model_name, Txt_dev_echo),
     src |-> Default(ctor.rephrase_model_src, "AUTO"),
     task |-> "summarization"]

\* line 34
from_model_names_L34 ==
    /\ pc = "L34"
    /\ LET q == from_model_names_L34_request
       IN  \E r \in model_info_from_name(q.name, q.src, q.task) :
             /\ calls' = Append(calls, Call("model_info_from_name", q, <<>>, NoObj,
                                            NoObj, "", <<>>, r.raised))
             /\ IF r.raised = ""
                THEN /\ ctor' = [ctor EXCEPT !.rephrase_model_info = r.info]
                     /\ pc' = "L36"
                     /\ UNCHANGED <<held, self_fields, loaded, outcome, error>>
                ELSE /\ ctor' = ctor
                     /\ RaiseFromConstruction(r.raised)
    /\ UNCHANGED <<op, args, resStr, resBool>>

\* line 36 passing the descriptors the other way round
from_model_names_L36_args_swapped == << ctor.rephrase_model_info, ctor.s_model_info >>

\* line 36: the arguments of cls(s_model_info, rephrase_model_info), in order
from_model_names_L36_args == << ctor.s_model_info, ctor.rephrase_model_info >>

\* line 36: cls(...) enters __init__; line 16 runs
from_model_names_L36 ==
    /\ pc = "L36"
    /\ init_L16([ctor EXCEPT !.init_critique_model_info = from_model_names_L36_args[1],
                             !.init_rephrase_model_info = from_model_names_L36_args[2]],
                calls)
    /\ UNCHANGED <<op, args, resStr, resBool>>

\* Secondary(critique_model_info, rephrase_model_info) is called; line 16 runs
Secondary_init(critique_model_info, rephrase_model_info) ==
    /\ pc = "idle"
    /\ ~held
    /\ op' = "__init__"
    /\ args' = NoArgs
    /\ resStr' = <<>>
    /\ resBool' = FALSE
    /\ init_L16([NoCtor EXCEPT !.via = "__init__",
                               !.init_critique_model_info = critique_model_info,
                               !.init_rephrase_model_info = rephrase_model_info],
                <<>>)

\* line 17 assigning to the critique pair
init_L17_assign_critique(r) ==
    [critique_model |-> r.model, critique_tokenizer |-> r.tokenizer,
     rephrase_model |-> rephrase_model, rephrase_tokenizer |-> rephrase_tokenizer]

\* the fields of self after the assignment of line 17, r being what
\* pretrained_from_info returned
init_L17_assign(r) ==
    [critique_model |-> critique_model, critique_tokenizer |-> critique_tokenizer,
     rephrase_model |-> r.model, rephrase_tokenizer |-> r.tokenizer]

\* line 17, and the return of the new instance
Secondary_init_L17 ==
    /\ pc = "L17"
    /\ \E r \in pretrained_from_info(ctor.init_rephrase_model_info, 2) :
        /\ calls' = Append(calls, Call("pretrained_from_info", ctor.init_rephrase_model_info,
                                       <<>>, NoObj, NoObj, "", <<>>, r.raised))
        /\ IF r.raised = ""
           THEN /\ LET self == init_L17_assign(r)
                   IN  /\ critique_model' = self.critique_model
                       /\ critique_tokenizer' = self.critique_tokenizer
                       /\ rephrase_model' = self.rephrase_model
                       /\ rephrase_tokenizer' = self.rephrase_tokenizer
                /\ loaded' = [loaded EXCEPT !.rephrase = <<r.model, r.tokenizer>>]
                /\ pc' = "idle"
                /\ held' = TRUE
                /\ outcome' = "returned"
                /\ error' = ""
           ELSE RaiseFromConstruction(r.raised)
    /\ UNCHANGED <<op, args, ctor, resStr, resBool>>


(***************************************************************************)
(* The operations of an instance                                           *)
(***************************************************************************)
\* an operation ends: what it was, what it called, how it ended
Finish(opname, a, cs, res) ==
    /\ op' = opname
    /\ args' = a
    /\ calls' = cs
    /\ outcome' = res.outcome
    /\ error' = res.error
    /\ resStr' = res.resStr
    /\ resBool' = res.resBool
    /\ ctor' = NoCtor
    /\ UNCHANGED <<pc, held, self_fields, loaded>>

Returned(str, bool) == [outcome |-> "returned", error |-> "", resStr |-> str, resBool |-> bool]
Raised(e) == [outcome |-> "raised", error |-> e, resStr |-> <<>>, resBool |-> FALSE]

GenCall(c, r) ==
    Call("generate_using", NoInfo, c.text, c.model, c.tokenizer, c.kwargs, r.ret, r.raised)

\* name built from the rephrase model
name_of_rephrase_model == <<"S", "(">> \o rephrase_model.name_or_path \o <<")">>

\* line 40
name == <<"S", "(">> \o critique_model.name_or_path \o <<")">>

get_name ==
    /\ pc = "idle"
    /\ held
    /\ Finish("name", NoArgs, <<>>, Returned(name, FALSE))

\* generate running the rephrase model
generate_args_rephrase_model(prompt, kwargs) ==
    [text |-> prompt, model |-> rephrase_model, tokenizer |-> critique_tokenizer,
     kwargs |-> kwargs]

\* line 50: what generate passes to generate_using
generate_args(prompt, kwargs) ==
    [text |-> prompt, model |-> critique_model, tokenizer |-> critique_tokenizer,
     kwargs |-> kwargs]

\* line 50: how generate ends, r being how generate_using ended
generate_result(r) ==
    IF r.raised = "" THEN Returned(r.ret, FALSE) ELSE Raised(r.raised)

generate(prompt, kwargs) ==
    /\ pc = "idle"
    /\ held
    /\ LET c == generate_args(prompt, kwargs)
       IN  \E r \in generate_using(c.text, c.model, c.tokenizer, c.kwargs) :
             Finish("generate", [text |-> prompt, critique |-> <<>>, kwargs |-> kwargs],
                    << GenCall(c, r) >>, generate_result(r))

\* line 60: what rephrase passes to generate_using
rephrase_args(text, kwargs) ==
    [text |-> text, model |-> rephrase_model, tokenizer |-> rephrase_tokenizer,
     kwargs |-> kwargs]

\* line 60: how rephrase ends
rephrase_result(r) ==
    IF r.raised = "" THEN Returned(r.ret, FALSE) ELSE Raised(r.raised)

rephrase(text, kwargs) ==
    /\ pc = "idle"
    /\ held
    /\ LET c == rephrase_args(text, kwargs)
       IN  \E r \in generate_using(c.text, c.model, c.tokenizer, c.kwargs) :
             Finish("rephrase", [text |-> text, critique |-> <<>>, kwargs |-> kwargs],
                    << GenCall(c, r) >>, rephrase_result(r))

\* critique_prompt sending the prompt as it is
critique_prompt_args_untemplated(prompt, kwargs) ==
    [text |-> prompt, model |-> critique_model, tokenizer |-> critique_tokenizer,
     kwargs |-> kwargs]

\* line 70: what critique_prompt passes to generate_using
critique_prompt_args(prompt, kwargs) ==
    [text |-> StrFormat(PROMPT_CRITIQUE_PROMPT, [prompt |-> prompt]),
     model |-> critique_model, tokenizer |-> critique_tokenizer, kwargs |-> kwargs]

\* critique_prompt returning the generation unfiltered
critique_prompt_result_unfiltered(r) ==
    IF r.raised = "" THEN Returned(r.ret, FALSE) ELSE Raised(r.raised)

\* lines 70-71: how critique_prompt ends
critique_prompt_result(r) ==
    IF r.raised = ""
    THEN Returned(IF is_valid_critique(r.ret) THEN r.ret ELSE <<>>, FALSE)
    ELSE Raised(r.raised)

critique_prompt(prompt, kwargs) ==
    /\ pc = "idle"
    /\ held
    /\ LET c == critique_prompt_args(prompt, kwargs)
       IN  \E r \in generate_using(c.text, c.model, c.tokenizer, c.kwargs) :
             Finish("critique_prompt",
                    [text |-> prompt, critique |-> <<>>, kwargs |-> kwargs],
                    << GenCall(c, r) >>, critique_prompt_result(r))

\* line 81: what critique_response passes to generate_using
critique_response_args(response, kwargs) ==
    [text |-> StrFormat(RESPONSE_CRITIQUE_PROMPT, [response |-> response]),
     model |-> critique_model, tokenizer |-> critique_tokenizer, kwargs |-> kwargs]

\* critique_response catching the failure and returning ""
critique_response_result_swallowed(r) ==
    IF r.raised = ""
    THEN Returned(IF is_valid_critique(r.ret) THEN r.ret ELSE <<>>, FALSE)
    ELSE Returned(<<>>, FALSE)

\* lines 81-82: how critique_response ends
critique_response_result(r) ==
    IF r.raised = ""
    THEN Returned(IF is_valid_critique(r.ret) THEN r.ret ELSE <<>>, FALSE)
    ELSE Raised(r.raised)

critique_response(response, kwargs) ==
    /\ pc = "idle"
    /\ held
    /\ LET c == critique_response_args(response, kwargs)
       IN  \E r \in generate_using(c.text, c.model, c.tokenizer, c.kwargs) :
             Finish("critique_response",
                    [text |-> response, critique |-> <<>>, kwargs |-> kwargs],
                    << GenCall(c, r) >>, critique_response_result(r))

(***************************************************************************)
(* The static methods: no instance is needed                               *)
(***************************************************************************)
call_make_conscience_prompt(prompt, prompt_critique) ==
    /\ pc = "idle"
    /\ Finish("make_conscience_prompt",
              [text |-> prompt, critique |-> prompt_critique, kwargs |-> ""],
              <<>>, Returned(make_conscience_prompt(prompt, prompt_critique), FALSE))

call_make_correction_prompt(response, response_critique) ==
    /\ pc = "idle"
    /\ Finish("make_correction_prompt",
              [text |-> response, critique |-> response_critique, kwargs |-> ""],
              <<>>, Returned(make_correction_prompt(response, response_critique), FALSE))

call_is_valid_critique(critique) ==
    /\ pc = "idle"
    /\ Finish("is_valid_critique",
              [text |-> <<>>, critique |-> critique, kwargs |-> ""],
              <<>>, Returned(<<>>, is_valid_critique(critique)))

(***************************************************************************)
(* The specification                                                       *)
(***************************************************************************)
OptionalNames == { OmittedName } \cup { Given(n) : n \in ModelNames }
OptionalSrcs == { OmittedSrc } \cup { Given(h) : h \in SrcHints }

Next ==
    \/ \E n \in ModelNames, rn \in OptionalNames, ss \in OptionalSrcs, rs \in OptionalSrcs :
          from_model_names(n, rn, ss, rs)
    \/ from_model_names_L34
    \/ from_model_names_L36
    \/ \E ci \in ModelInfos, ri \in ModelInfos : Secondary_init(ci, ri)
    \/ Secondary_init_L17
    \/ get_name
    \/ \E p \in Prompts, k \in Options : generate(p, k)
    \/ \E p \in Prompts, k \in Options : rephrase(p, k)
    \/ \E p \in Prompts, k \in Options : critique_prompt(p, k)
    \/ \E p \in Prompts, k \in Options : critique_response(p, k)
    \/ \E p \in Prompts, c \in Critiques : call_make_conscience_prompt(p, c)
    \/ \E p \in Prompts, c \in Critiques : call_make_correction_prompt(p, c)
    \/ \E c \in Outputs : call_is_valid_critique(c)

Spec == Init /\ [][Next]_vars

\* is_valid_critique alone: it has been called on a text of Texts, and returns
InitValid ==
    /\ pc = "idle"
    /\ held = FALSE
    /\ critique_model = NoObj
    /\ critique_tokenizer = NoObj
    /\ rephrase_model = NoObj
    /\ rephrase_tokenizer = NoObj
    /\ loaded = NoLoaded
    /\ op = "is_valid_critique"
    /\ args \in { [text |-> <<>>, critique |-> c, kwargs |-> ""] : c \in Texts }
    /\ ctor = NoCtor
    /\ calls = <<>>
    /\ outcome = "running"
    /\ error = ""
    /\ resStr = <<>>
    /\ resBool = FALSE

return_is_valid_critique ==
    /\ pc = "idle"
    /\ op = "is_valid_critique"
    /\ outcome = "running"
    /\ Finish("is_valid_critique", args, <<>>,
              Returned(<<>>, is_valid_critique(args.critique)))

SpecValid == InitValid /\ [][return_is_valid_critique]_vars


(***************************************************************************)
(* Properties                                                              *)
(***************************************************************************)
\* a and b are the same character, or the two cases of one letter
SameLetter(a, b) ==
    \/ a = b
    \/ \E k \in 1..Len(UpperCase) : {a, b} = {UpperCase[k], LowerCase[k]}

\* f occurs in c, the case of letters ignored
ContainsIgnoringCase(c, f) ==
    /\ Len(f) <= Len(c)
    /\ \E i \in 0..(Len(c) - Len(f)) : \A j \in 1..Len(f) : SameLetter(c[i + j], f[j])

NegativeMarkers == { Txt_no_change, Txt_not_change, Txt_not_adversarial }

MatchesMarker(c) == \E f \in NegativeMarkers : ContainsIgnoringCase(c, f)

GenerationOps == { "generate", "rephrase", "critique_prompt", "critique_response" }
ConstructionOps == { "from_model_names", "__init__" }

\* the external calls an operation makes when nothing fails, in order
ExpectedCalls ==
    IF op = "from_model_names"
    THEN << "model_info_from_name", "model_info_from_name",
            "pretrained_from_info", "pretrained_from_info" >>
    ELSE IF op = "__init__" THEN << "pretrained_from_info", "pretrained_from_info" >>
    ELSE IF op \in GenerationOps THEN << "generate_using" >>
    ELSE << >>

\* C1: is_valid_critique(c) is false exactly when c contains "no change",
\* "not change" or "not adversarial", the case of letters ignored; so it is
\* true of the empty string and of "nothing seems wrong".
C1_IsValidCritique ==
    (op = "is_valid_critique" /\ outcome = "returned") =>
        /\ resBool = ~MatchesMarker(args.critique)
        /\ (args.critique = <<>> => resBool)
        /\ (args.critique = Txt_nothing_wrong => resBool)

\* a critique rejected only because the case of letters is ignored
C1_Witness ==
    /\ op = "is_valid_critique"
    /\ outcome = "returned"
    /\ ~resBool
    /\ \A f \in NegativeMarkers : ~StrIn(f, args.critique)

\* C2: critique_prompt and critique_response return "" when the generation's
\* text g contains a negative marker and g itself otherwise: the unsafe-content
\* answer comes back as it is, "no change needed" comes back as "".
C2_CritiqueFilter ==
    (op \in {"critique_prompt", "critique_response"} /\ outcome = "returned") =>
        /\ Len(calls) = 1
        /\ LET g == calls[1].ret
           IN  /\ resStr = IF MatchesMarker(g) THEN <<>> ELSE g
               /\ (g = Txt_unsafe => resStr = Txt_unsafe)
               /\ (g = Txt_no_change_needed => resStr = <<>>)

\* critique_prompt("x") with a model answering "no change needed"
C2_Witness ==
    /\ op = "critique_prompt"
    /\ outcome = "returned"
    /\ args.text = Txt_x
    /\ calls[1].ret = Txt_no_change_needed
    /\ resStr = <<>>

C4_PairsNeverReplaced ==
    /\ [](held => /\ <<critique_model, critique_tokenizer>> = loaded.critique
                  /\ <<rephrase_model, rephrase_tokenizer>> = loaded.rephrase
                  /\ critique_model.kind = "model"
                  /\ critique_tokenizer.kind = "tokenizer"
                  /\ rephrase_model.kind = "model"
                  /\ rephrase_tokenizer.kind = "tokenizer")
    /\ [][held => (held' /\ self_fields' = self_fields /\ loaded' = loaded)]_vars

\* an instance after a rephrase that returned
C4_Witness ==
    /\ held
    /\ op = "rephrase"
    /\ outcome = "returned"

\* C5: name returns "S(" + the critique model's path + ")", whatever the
\* rephrase model is: a critique model of path "gpt2" gives "S(gpt2)".
C5_Name ==
    (op = "name") =>
        /\ outcome = "returned"
        /\ calls = <<>>
        /\ resStr = <<"S", "(">> \o loaded.critique[1].name_or_path \o <<")">>
        /\ (loaded.critique[1].name_or_path = Txt_gpt2
               => resStr = <<"S", "(", "g", "p", "t", "2", ")">>)

\* the name of an instance whose rephrase model has another path
C5_Witness ==
    /\ op = "name"
    /\ resStr = <<"S", "(", "g", "p", "t", "2", ")">>
    /\ rephrase_model.name_or_path = Txt_dev_echo

\* C6: from_model_names resolves the critique name with task "conversational"
\* and the rephrase name, "dev/echo" when omitted, with task "summarization",
\* each with source AUTO when no hint is given, and passes the two descriptors
\* to the constructor as (critique, rephrase).
C6_FactoryDefaults ==
    (op = "from_model_names") =>
        /\ Len(calls) >= 1
        /\ calls[1].fn = "model_info_from_name"
        /\ calls[1].info =
              [name |-> ctor.secondary_model_name,
               src |-> IF ctor.secondary_model_src.given
                       THEN ctor.secondary_model_src.val ELSE "AUTO",
               task |-> "conversational"]
        /\ (Len(calls) >= 2 =>
              /\ calls[2].fn = "model_info_from_name"
              /\ calls[2].info =
                    [name |-> IF ctor.rephrase_model_name.given
                              THEN ctor.rephrase_model_name.val ELSE Txt_dev_echo,
                     src |-> IF ctor.rephrase_model_src.given
                             THEN ctor.rephrase_model_src.val ELSE "AUTO",
                     task |-> "summarization"])
        /\ (Len(calls) >= 3 =>
              /\ ctor.init_critique_model_info = calls[1].info
              /\ ctor.init_rephrase_model_info = calls[2].info)

\* an instance built from a critique name alone
C6_Witness ==
    /\ op = "from_model_names"
    /\ held
    /\ ~ctor.rephrase_model_name.given
    /\ ~ctor.secondary_model_src.given
    /\ ~ctor.rephrase_model_src.given
    /\ calls[2].info.name = Txt_dev_echo
    /\ loaded.rephrase[1].name_or_path = Txt_dev_echo

\* C7: a failure of an external call ends the operation at once with that very
\* exception: the failing call is the operation's last, no call is made twice,
\* nothing is returned, and every exception that reaches the caller is one an
\* external call raised.
C7_FailuresPropagate ==
    /\ \A i \in 1..Len(calls) :
          calls[i].raised # "" =>
              /\ i = Len(calls)
              /\ outcome = "raised"
              /\ error = calls[i].raised
              /\ resStr = <<>>
    /\ (outcome = "raised" =>
          /\ calls # <<>>
          /\ calls[Len(calls)].raised = error
          /\ error \in Errors
          /\ pc = "idle"
          /\ (op \in ConstructionOps => ~held))
    /\ Len(calls) <= Len(ExpectedCalls)
    /\ \A i \in 1..Len(calls) : calls[i].fn = ExpectedCalls[i]

\* a critique_response whose generation ran out of memory
C7_Witness ==
    /\ op = "critique_response"
    /\ outcome = "raised"
    /\ error = "OutOfMemoryError"

\* C8: generate makes one generation call, on the critique model and tokenizer,
\* with its prompt and options as given, and returns the call's text as it is;
\* rephrase does the same on the rephrase model and tokenizer.
C8_GenerateRephrase ==
    /\ (op = "generate" =>
          /\ Len(calls) = 1
          /\ calls[1].fn = "generate_using"
          /\ <<calls[1].model, calls[1].tokenizer>> = loaded.critique
          /\ calls[1].text = args.text
          /\ calls[1].kwargs = args.kwargs
          /\ (outcome = "returned" => resStr = calls[1].ret))
    /\ (op = "rephrase" =>
          /\ Len(calls) = 1
          /\ calls[1].fn = "generate_using"
          /\ <<calls[1].model, calls[1].tokenizer>> = loaded.rephrase
          /\ calls[1].model # critique_model
          /\ calls[1].tokenizer # critique_tokenizer
          /\ calls[1].text = args.text
          /\ calls[1].kwargs = args.kwargs
          /\ (outcome = "returned" => resStr = calls[1].ret))

\* generate returning a text that holds a negative marker
C8_Witness ==
    /\ op = "generate"
    /\ outcome = "returned"
    /\ resStr = Txt_no_change_needed

\* C9: critique_prompt and critique_response each make one generation call, on
\* the critique pair, sending their own template filled with the argument; the
\* result is decided from what that call returned.
C9_CritiqueCalls ==
    /\ (op = "critique_prompt" =>
          /\ Len(calls) = 1
          /\ calls[1].fn = "generate_using"
          /\ <<calls[1].model, calls[1].tokenizer>> = loaded.critique
          /\ calls[1].model # rephrase_model
          /\ calls[1].tokenizer # rephrase_tokenizer
          /\ calls[1].text = StrFormat(PROMPT_CRITIQUE_PROMPT, [prompt |-> args.text])
          /\ calls[1].text # StrFormat(RESPONSE_CRITIQUE_PROMPT, [response |-> args.text])
          /\ calls[1].text # args.text
          /\ (calls[1].raised # "" => outcome = "raised")
          /\ (outcome = "returned" => resStr \in { <<>>, calls[1].ret }))
    /\ (op = "critique_response" =>
          /\ Len(calls) = 1
          /\ calls[1].fn = "generate_using"
          /\ <<calls[1].model, calls[1].tokenizer>> = loaded.critique
          /\ calls[1].model # rephrase_model
          /\ calls[1].tokenizer # rephrase_tokenizer
          /\ calls[1].text = StrFormat(RESPONSE_CRITIQUE_PROMPT, [response |-> args.text])
          /\ calls[1].text # StrFormat(PROMPT_CRITIQUE_PROMPT, [prompt |-> args.text])
          /\ calls[1].text # args.text
          /\ (calls[1].raised # "" => outcome = "raised")
          /\ (outcome = "returned" => resStr \in { <<>>, calls[1].ret }))

\* a critique of a prompt that itself holds a negative marker
C9_Witness ==
    /\ op = "critique_prompt"
    /\ outcome = "returned"
    /\ args.text = Txt_no_change
    /\ resStr = Txt_unsafe

\* C10: construction resolves the critique descriptor, then the rephrase
\* descriptor, then loads the critique pair, then the rephrase pair; a failed
\* step is the last one, and an instance is held only when all steps succeeded.
C10_ConstructionOrdered ==
    /\ (pc # "idle" => ~held)
    /\ (held => /\ critique_model # NoObj
                /\ critique_tokenizer # NoObj
                /\ rephrase_model # NoObj
                /\ rephrase_tokenizer # NoObj)
    /\ (op \in ConstructionOps =>
          LET n == Len(calls)
              base == IF op = "from_model_names" THEN 2 ELSE 0
          IN  /\ n <= base + 2
              /\ \A i \in 1..n :
                    /\ calls[i].fn = IF i <= base THEN "model_info_from_name"
                                     ELSE "pretrained_from_info"
                    /\ (calls[i].raised # "" => i = n /\ ~held /\ pc = "idle")
              /\ (op = "from_model_names" /\ n >= 1 =>
                    /\ calls[1].info.task = "conversational"
                    /\ calls[1].info.name = ctor.secondary_model_name)
              /\ (op = "from_model_names" /\ n >= 2 =>
                    calls[2].info.task = "summarization")
              /\ (n >= base + 1 =>
                    /\ calls[base + 1].info = ctor.init_critique_model_info
                    /\ (op = "from_model_names" => calls[base + 1].info = calls[1].info))
              /\ (n >= base + 2 =>
                    /\ calls[base + 2].info = ctor.init_rephrase_model_info
                    /\ (op = "from_model_names" => calls[base + 2].info = calls[2].info))
              /\ (held <=> (n = base + 2 /\ calls[n].raised = ""))
              /\ (pc = "L34" => n = 1)
              /\ (pc = "L36" => n = 2)
              /\ (pc = "L17" => n = base + 1))

\* from_model_names whose critique load failed: three calls, no instance
C10_Witness ==
    /\ op = "from_model_names"
    /\ outcome = "raised"
    /\ Len(calls) = 3
    /\ ~held


====
